---- MODULE Spec2Model ----
(***************************************************************************)
(* Model of the bilingual PII engine of src/chatbot_api/pii_utils.py:      *)
(* BilingualPIIDetector (detect_language, detect_pii_entities, redact_pii, *)
(* _get_replacement, contains_pii, get_pii_summary) and the module-level   *)
(* convenience functions that forward to the global instance.              *)
(*                                                                         *)
(* A text is a sequence of one-character strings.  Offsets are Python's:   *)
(* 0-based, half-open, so text[start:end] is SubSeq(text, start+1, end).   *)
(***************************************************************************)
EXTENDS Integers, Sequences, FiniteSets, TLC

(***************************************************************************)
(* Bounds of the model.                                                    *)
(***************************************************************************)
\* the recognizer returns at most MaxEnts spans for one text
MaxEnts == 1
\* a recognizer span is at most MaxSpanLen characters long
MaxSpanLen == 4

(***************************************************************************)
(* Characters and character classes used by the patterns.                  *)
(***************************************************************************)
Lower == {"a", "b", "c", "d", "e", "f", "o", "r"}
Upper == {"B", "C"}
Letters == Lower \cup Upper
Digits == {"0", "1", "2", "3", "4", "5", "6", "7", "8", "9"}
\* Python's str.isspace / str.strip / regex \s
Whitespace == {" "}
\* regex \w
WordChars == Letters \cup Digits \cup {"_"}

\* the words texts are built from
Vocabulary ==
  { <<" ">>,
    <<" ", "B", "o", "b">>,
    <<"a", "b", "c", "@", "d", ".", "e", "f">>,
    <<"1", "2", "-", "3", "4", "5">>,
    <<"1", "2", "3">> }

\* the input texts: the empty text, one word, or two words run together
Texts == { a \o b : a \in Vocabulary \cup { << >> }, b \in Vocabulary \cup { << >> } }

(***************************************************************************)
(* Regular expressions.  A pattern is a sequence of alternatives tried in  *)
(* order; an alternative is a sequence of items; an item is either the     *)
(* zero-width word boundary \b or a character class with a greedy          *)
(* repetition {min,max}.  An optional group (X)?Y is the two alternatives  *)
(* XY, Y in that order, which is the order the backtracking matcher of     *)
(* Python's re explores.  re.IGNORECASE is folded into the classes.  A max  *)
(* of -1 stands for an unbounded repetition (+ and {n,}).                  *)
(***************************************************************************)

WB == [kind |-> "b", cls |-> {}, min |-> 0, max |-> 0]

Rep(c, lo, hi) == [kind |-> "set", cls |-> c, min |-> lo, max |-> hi]

Sep == {"-", "."} \cup Whitespace

PhoneTail ==
  << Rep({"("}, 0, 1), Rep(Digits, 1, 4), Rep({")"}, 0, 1), Rep(Sep, 0, 1),
     Rep(Digits, 1, 4), Rep(Sep, 0, 1), Rep(Digits, 1, 9) >>

EMAIL ==
  << << WB, Rep(Letters \cup Digits \cup {".", "_", "%", "+", "-"}, 1, -1),
        Rep({"@"}, 1, 1),
        Rep(Letters \cup Digits \cup {".", "-"}, 1, -1),
        Rep({"."}, 1, 1),
        Rep(Letters \cup {"|"}, 2, -1), WB >> >>

PHONE ==
  << << Rep({"+"}, 0, 1), Rep(Digits, 1, 3), Rep(Sep, 0, 1) >> \o PhoneTail,
     PhoneTail >>

SSN ==
  << << WB, Rep(Digits, 3, 3), Rep({"-"}, 1, 1), Rep(Digits, 2, 2),
        Rep({"-"}, 1, 1), Rep(Digits, 4, 4), WB >> >>

CREDIT_CARD ==
  << << WB, Rep(Digits, 4, 4), Rep({"-", " "}, 0, 1), Rep(Digits, 4, 4),
        Rep({"-", " "}, 0, 1), Rep(Digits, 4, 4), Rep({"-", " "}, 0, 1),
        Rep(Digits, 4, 4), WB >> >>

FRENCH_SSN ==
  << << WB, Rep({"1", "2"}, 1, 1), Rep(Digits, 12, 12), WB >> >>

PASSPORT ==
  << << WB, Rep(Letters, 1, 2), Rep(Digits, 6, 9), WB >> >>

\* variant: CREDIT_CARD is declared before PHONE
regex_patterns_cardFirst ==
  << [name |-> "EMAIL", pattern |-> EMAIL],
     [name |-> "CREDIT_CARD", pattern |-> CREDIT_CARD],
     [name |-> "PHONE", pattern |-> PHONE],
     [name |-> "SSN", pattern |-> SSN],
     [name |-> "FRENCH_SSN", pattern |-> FRENCH_SSN],
     [name |-> "PASSPORT", pattern |-> PASSPORT] >>

\* self.regex_patterns, in declaration (= dict iteration) order
regex_patterns ==
  << [name |-> "EMAIL", pattern |-> EMAIL],
     [name |-> "PHONE", pattern |-> PHONE],
     [name |-> "SSN", pattern |-> SSN],
     [name |-> "CREDIT_CARD", pattern |-> CREDIT_CARD],
     [name |-> "FRENCH_SSN", pattern |-> FRENCH_SSN],
     [name |-> "PASSPORT", pattern |-> PASSPORT] >>

Min(a, b) == IF a < b THEN a ELSE b

IsWordAt(txt, i) == i >= 1 /\ i <= Len(txt) /\ txt[i] \in WordChars

\* \b at offset pos: exactly one of the characters around pos is a word character
AtBoundary(txt, pos) == IsWordAt(txt, pos) # IsWordAt(txt, pos + 1)

\* number of consecutive characters of class c starting at offset pos, capped
RECURSIVE RunLen(_, _, _, _)
RunLen(txt, c, pos, cap) ==
  IF cap = 0 \/ pos >= Len(txt) \/ txt[pos + 1] \notin c THEN 0
  ELSE 1 + RunLen(txt, c, pos + 1, cap - 1)

\* end offset of the match of items[k..] at offset pos preferred by the
\* backtracking matcher (each repetition tried longest first), or -1
RECURSIVE MatchItems(_, _, _, _)
RECURSIVE TryCount(_, _, _, _, _)
MatchItems(txt, items, k, pos) ==
  IF k > Len(items) THEN pos
  ELSE IF items[k].kind = "b"
       THEN IF AtBoundary(txt, pos) THEN MatchItems(txt, items, k + 1, pos) ELSE -1
       ELSE TryCount(txt, items, k, pos, RunLen(txt, items[k].cls, pos, items[k].max))

TryCount(txt, items, k, pos, n) ==
  IF n < items[k].min THEN -1
  ELSE LET r == MatchItems(txt, items, k + 1, pos + n)
       IN  IF r >= 0 THEN r ELSE TryCount(txt, items, k, pos, n - 1)

RECURSIVE MatchAlts(_, _, _, _)
MatchAlts(txt, alts, a, pos) ==
  IF a > Len(alts) THEN -1
  ELSE LET r == MatchItems(txt, alts[a], 1, pos)
       IN  IF r >= 0 THEN r ELSE MatchAlts(txt, alts, a + 1, pos)

\* re.finditer(pattern, text): leftmost non-overlapping matches, left to right
RECURSIVE finditer(_, _, _)
finditer(alts, txt, pos) ==
  IF pos > Len(txt) THEN << >>
  ELSE LET e == MatchAlts(txt, alts, 1, pos)
       IN  IF e < 0 THEN finditer(alts, txt, pos + 1)
           ELSE << [start |-> pos, end |-> e, group |-> SubSeq(txt, pos + 1, e)] >>
                \o finditer(alts, txt, IF e > pos THEN e ELSE pos + 1)

(***************************************************************************)
(* Strings of the program as character sequences.                          *)
(***************************************************************************)
\* the characters of a label, for the f-strings of _get_replacement
LabelText(label) ==
  CASE label = "PERSON" -> <<"P", "E", "R", "S", "O", "N">>
    [] label = "PER" -> <<"P", "E", "R">>
    [] label = "ORG" -> <<"O", "R", "G">>
    [] label = "EMAIL" -> <<"E", "M", "A", "I", "L">>
    [] label = "PHONE" -> <<"P", "H", "O", "N", "E">>
    [] label = "SSN" -> <<"S", "S", "N">>
    [] label = "CREDIT_CARD" -> <<"C", "R", "E", "D", "I", "T", "_", "C", "A", "R", "D">>
    [] label = "FRENCH_SSN" -> <<"F", "R", "E", "N", "C", "H", "_", "S", "S", "N">>
    [] label = "PASSPORT" -> <<"P", "A", "S", "S", "P", "O", "R", "T">>

\* Python's text[a:b] for 0 <= a, b
Slice(txt, a, b) == SubSeq(txt, a + 1, Min(b, Len(txt)))

\* str.isspace(): non-empty and every character is whitespace
isspace(txt) == Len(txt) > 0 /\ \A i \in 1..Len(txt) : txt[i] \in Whitespace

\* str.strip(): drop leading and trailing whitespace
RECURSIVE lstrip(_)
lstrip(txt) ==
  IF Len(txt) > 0 /\ txt[1] \in Whitespace THEN lstrip(Tail(txt)) ELSE txt

RECURSIVE rstrip(_)
rstrip(txt) ==
  IF Len(txt) > 0 /\ txt[Len(txt)] \in Whitespace
  THEN rstrip(SubSeq(txt, 1, Len(txt) - 1)) ELSE txt

strip(txt) == rstrip(lstrip(txt))

\* variant: only the empty text is blank
IsBlank_emptyOnly(txt) == Len(txt) = 0

\* the guard of detect_pii_entities: "not text or not text.strip()"
IsBlank(txt) == Len(txt) = 0 \/ Len(strip(txt)) = 0

(***************************************************************************)
(* The detector's label sets and the recognizers' answers.                 *)
(***************************************************************************)
sensitive_labels_en == {"PERSON"}
sensitive_labels_fr == {"PER"}

\* labels the two spaCy pipelines put on their spans
LabelsEn == {"PERSON", "ORG"}
LabelsFr == {"PER", "ORG"}

\* values the classifier may return: the two codes and an unrecognized one
Languages == {"en", "fr", "english"}

\* offsets at which a recognizer span may begin or end: token edges
TokenEdges(txt) ==
  { p \in 0..Len(txt) : p = 0 \/ p = Len(txt) \/ AtBoundary(txt, p) }

Span(label, s, e, txt) ==
  [label_ |-> label, start_char |-> s, end_char |-> e, text |-> SubSeq(txt, s + 1, e)]

\* doc.ents of a pipeline: at most MaxEnts non-empty spans of the text, in
\* text order and not overlapping (spaCy rejects overlapping doc.ents)
RECURSIVE EntsFrom(_, _, _, _)
EntsFrom(txt, labels, from, n) ==
  IF n = 0 THEN { << >> }
  ELSE { << >> } \cup
       UNION { { << Span(l, s, e, txt) >> \o rest :
                   l \in labels, rest \in EntsFrom(txt, labels, e, n - 1) } :
               <<s, e>> \in { se \in TokenEdges(txt) \X TokenEdges(txt) :
                                /\ se[1] >= from
                                /\ se[1] < se[2]
                                /\ se[2] - se[1] <= MaxSpanLen } }

DocEnts(txt, labels) == EntsFrom(txt, labels, 0, MaxEnts)

(***************************************************************************)
(* detect_pii_entities, lines 88-133: the aggregation after the language   *)
(* and the document are known.                                             *)
(***************************************************************************)
\* variant: the end offset recorded as the offset of the last character
RECURSIVE SpacyEntities_inclusiveEnd(_, _, _)
SpacyEntities_inclusiveEnd(ents, sensitive_labels, language) ==
  IF ents = << >> THEN << >>
  ELSE LET ent == Head(ents)
           keep == /\ ent.label_ \in sensitive_labels
                   /\ Len(strip(ent.text)) > 2
                   /\ ~ isspace(ent.text)
       IN  (IF keep
            THEN << [text |-> ent.text, label |-> ent.label_,
                     start |-> ent.start_char, end |-> ent.end_char - 1,
                     source |-> "spacy", language |-> language] >>
            ELSE << >>)
           \o SpacyEntities_inclusiveEnd(Tail(ents), sensitive_labels, language)

\* variant: a span of two characters passes the filter
RECURSIVE SpacyEntities_minTwo(_, _, _)
SpacyEntities_minTwo(ents, sensitive_labels, language) ==
  IF ents = << >> THEN << >>
  ELSE LET ent == Head(ents)
           keep == /\ ent.label_ \in sensitive_labels
                   /\ Len(strip(ent.text)) >= 2
                   /\ ~ isspace(ent.text)
       IN  (IF keep
            THEN << [text |-> ent.text, label |-> ent.label_,
                     start |-> ent.start_char, end |-> ent.end_char,
                     source |-> "spacy", language |-> language] >>
            ELSE << >>)
           \o SpacyEntities_minTwo(Tail(ents), sensitive_labels, language)

\* lines 91-102: the spans of doc.ents that pass the filter
RECURSIVE SpacyEntities(_, _, _)
SpacyEntities(ents, sensitive_labels, language) ==
  IF ents = << >> THEN << >>
  ELSE LET ent == Head(ents)
           keep == /\ ent.label_ \in sensitive_labels
                   /\ Len(strip(ent.text)) > 2
                   /\ ~ isspace(ent.text)
       IN  (IF keep
            THEN << [text |-> ent.text, label |-> ent.label_,
                     start |-> ent.start_char, end |-> ent.end_char,
                     source |-> "spacy", language |-> language] >>
            ELSE << >>)
           \o SpacyEntities(Tail(ents), sensitive_labels, language)

\* variant: only a match that begins inside the entity counts as overlapping
Overlaps_startInside(match, entity) ==
  match.start >= entity.start /\ match.start < entity.end

\* line 110: the overlap test of a match against one accepted entity
Overlaps(match, entity) ==
  ~ (match.end <= entity.start \/ match.start >= entity.end)

\* variant: every match is accepted without the overlap test
RECURSIVE AddMatches_noOverlapTest(_, _, _, _)
AddMatches_noOverlapTest(entities, pattern_name, matches, language) ==
  IF matches = << >> THEN entities
  ELSE LET match == Head(matches)
       IN  AddMatches_noOverlapTest(
             Append(entities,
                    [text |-> match.group, label |-> pattern_name,
                     start |-> match.start, end |-> match.end,
                     source |-> "regex", language |-> language]),
             pattern_name, Tail(matches), language)

\* lines 106-122: the matches of one pattern, each tested against the
\* entities accepted so far
RECURSIVE AddMatches(_, _, _, _)
AddMatches(entities, pattern_name, matches, language) ==
  IF matches = << >> THEN entities
  ELSE LET match == Head(matches)
           overlap == \E i \in 1..Len(entities) : Overlaps(match, entities[i])
       IN  AddMatches(
             IF ~ overlap
             THEN Append(entities,
                    [text |-> match.group, label |-> pattern_name,
                     start |-> match.start, end |-> match.end,
                     source |-> "regex", language |-> language])
             ELSE entities,
             pattern_name, Tail(matches), language)

\* lines 105-106: re.finditer of every pattern of regex_patterns over the
\* text, in declaration order
PatternMatches(txt) ==
  [k \in 1..Len(regex_patterns) |->
     [name |-> regex_patterns[k].name,
      matches |-> finditer(regex_patterns[k].pattern, txt, 0)]]

\* lines 105-122: the matches of every pattern, in declaration order
RECURSIVE RegexEntities(_, _, _, _)
RegexEntities(entities, found, k, language) ==
  IF k > Len(found) THEN entities
  ELSE RegexEntities(
         AddMatches(entities, found[k].name, found[k].matches, language),
         found, k + 1, language)

\* variant: the key of a kept entity is not added to seen
RECURSIVE Unique_keyNotAdded(_, _)
Unique_keyNotAdded(entities, seen) ==
  IF entities = << >> THEN << >>
  ELSE LET entity == Head(entities)
           key == <<entity.text, entity.start, entity.end>>
       IN  IF key \notin seen
           THEN << entity >> \o Unique_keyNotAdded(Tail(entities), seen)
           ELSE Unique_keyNotAdded(Tail(entities), seen)

\* lines 125-131: keep the first entity of every (text, start, end)
RECURSIVE Unique(_, _)
Unique(entities, seen) ==
  IF entities = << >> THEN << >>
  ELSE LET entity == Head(entities)
           key == <<entity.text, entity.start, entity.end>>
       IN  IF key \notin seen
           THEN << entity >> \o Unique(Tail(entities), seen \cup {key})
           ELSE Unique(Tail(entities), seen)

\* sorted(..., key=start): stable insertion of e into an ascending list
RECURSIVE InsertAsc(_, _)
InsertAsc(sorted, e) ==
  IF sorted = << >> THEN << e >>
  ELSE IF Head(sorted).start <= e.start
       THEN << Head(sorted) >> \o InsertAsc(Tail(sorted), e)
       ELSE << e >> \o sorted

\* variant: the list is returned in acceptance order
SortedByStart_unsorted(entities) == entities

RECURSIVE SortedByStart(_)
SortedByStart(entities) ==
  IF entities = << >> THEN << >>
  ELSE InsertAsc(SortedByStart(SubSeq(entities, 1, Len(entities) - 1)),
                 entities[Len(entities)])

\* sorted(..., key=start, reverse=True): stable, descending
RECURSIVE InsertDesc(_, _)
InsertDesc(sorted, e) ==
  IF sorted = << >> THEN << e >>
  ELSE IF Head(sorted).start >= e.start
       THEN << Head(sorted) >> \o InsertDesc(Tail(sorted), e)
       ELSE << e >> \o sorted

RECURSIVE SortedByStartReverse(_)
SortedByStartReverse(entities) ==
  IF entities = << >> THEN << >>
  ELSE InsertDesc(SortedByStartReverse(SubSeq(entities, 1, Len(entities) - 1)),
                  entities[Len(entities)])

\* lines 81-86: the label set bound to the classified language
SensitiveLabels(language) ==
  IF language = "en" THEN sensitive_labels_en ELSE sensitive_labels_fr

\* lines 88-133 for a classified language, the recognizer's doc.ents and
\* the pattern matches of the text
Aggregate(found, language, ents) ==
  SortedByStart(
    Unique(
      RegexEntities(SpacyEntities(ents, SensitiveLabels(language), language),
                    found, 1, language),
      {}))

(***************************************************************************)
(* _get_replacement and redact_pii, lines 135-168.                         *)
(***************************************************************************)
Strategies == {"redact", "mask", "block", "hash"}

\* str.split(sep)[0]: the text before the first sep
RECURSIVE SplitHead(_, _)
SplitHead(txt, sep) ==
  IF txt = << >> \/ Head(txt) = sep THEN << >>
  ELSE << Head(txt) >> \o SplitHead(Tail(txt), sep)

\* the text after the first sep, or << >> when there is none
RECURSIVE SplitRest(_, _)
SplitRest(txt, sep) ==
  IF txt = << >> THEN << >>
  ELSE IF Head(txt) = sep THEN Tail(txt) ELSE SplitRest(Tail(txt), sep)

Contains(txt, ch) == \E i \in 1..Len(txt) : txt[i] = ch

\* text[-4:]
LastFour(txt) == SubSeq(txt, IF Len(txt) > 4 THEN Len(txt) - 3 ELSE 1, Len(txt))

\* lines 155-164: the "mask" branch
MaskReplacement(entity) ==
  IF entity.label \in {"EMAIL", "PHONE"}
  THEN IF Contains(entity.text, "@")
       THEN \* parts = text.split('@'); parts[0][:2] + "***@" + parts[1]
            Slice(SplitHead(entity.text, "@"), 0, 2) \o <<"*", "*", "*", "@">>
              \o SplitHead(SplitRest(entity.text, "@"), "@")
       ELSE IF Len(entity.text) > 4
            THEN <<"*", "*", "*", "-", "*", "*", "*", "-">> \o LastFour(entity.text)
            ELSE <<"*", "*", "*">>
  ELSE <<"*", "*", "*">> \o LabelText(entity.label) \o <<"*", "*", "*">>

RedactMarker(entity) ==
  <<"[", "R", "E", "D", "A", "C", "T", "E", "D", "_">> \o LabelText(entity.label) \o <<"]">>

\* variant: every strategy other than "redact" and "mask" raises
Raises_unknownToo(strategy) == strategy \notin {"redact", "mask"}

\* _get_replacement raises exactly under "block"
Raises(strategy) == strategy = "block"

\* the ValueError of line 166
BlockedError(entity) ==
  [kind |-> "raise", exc |-> "ValueError", label |-> entity.label, text |-> entity.text]

\* variant: a strategy that is not known is treated as "mask"
_get_replacement_unknownMasks(entity, strategy) ==
  IF strategy = "redact" THEN RedactMarker(entity)
  ELSE MaskReplacement(entity)

\* the string _get_replacement returns when it does not raise
_get_replacement(entity, strategy) ==
  IF strategy = "redact" THEN RedactMarker(entity)
  ELSE IF strategy = "mask" THEN MaskReplacement(entity)
  ELSE RedactMarker(entity)

\* variant: the entities are processed front to back
ProcessingOrder_ascending(entities) == SortedByStart(entities)

\* the order in which redact_pii processes the entities (line 141)
ProcessingOrder(entities) == SortedByStartReverse(entities)

\* variant: under "block" the loop runs to its last entity before raising
RECURSIVE RedactLoop_raiseAtEnd(_, _, _)
RedactLoop_raiseAtEnd(redacted_text, ordered, strategy) ==
  IF ordered = << >> THEN [kind |-> "return", value |-> redacted_text]
  ELSE LET entity == Head(ordered)
       IN  IF Raises(strategy)
           THEN IF Tail(ordered) = << >> THEN BlockedError(entity)
                ELSE RedactLoop_raiseAtEnd(redacted_text, Tail(ordered), strategy)
           ELSE RedactLoop_raiseAtEnd(
                  Slice(redacted_text, 0, entity.start)
                    \o _get_replacement(entity, strategy)
                    \o Slice(redacted_text, entity.end, Len(redacted_text)),
                  Tail(ordered), strategy)

\* lines 141-147: the loop over the entities in processing order
RECURSIVE RedactLoop(_, _, _)
RedactLoop(redacted_text, ordered, strategy) ==
  IF ordered = << >> THEN [kind |-> "return", value |-> redacted_text]
  ELSE LET entity == Head(ordered)
       IN  IF Raises(strategy) THEN BlockedError(entity)
           ELSE RedactLoop(
                  Slice(redacted_text, 0, entity.start)
                    \o _get_replacement(entity, strategy)
                    \o Slice(redacted_text, entity.end, Len(redacted_text)),
                  Tail(ordered), strategy)

\* redact_pii after detection: (redacted_text, entities) or the exception
Redact(txt, entities, strategy) ==
  LET r == RedactLoop(txt, ProcessingOrder(entities), strategy)
  IN  IF r.kind = "raise" THEN r
      ELSE [kind |-> "return", value |-> [redacted_text |-> r.value, entities |-> entities]]

\* get_pii_summary, lines 176-185: details from the first detection,
\* safe_text from the redaction of the second
Summary(txt, details, entities) ==
  LET r == Redact(txt, entities, "redact")
  IN  IF r.kind = "raise" THEN r
      ELSE [kind |-> "return",
            value |-> [has_confidential_info |-> Len(details) > 0,
                       entities_found |-> Len(details),
                       entity_types |-> { details[i].label : i \in 1..Len(details) },
                       safe_text |-> r.value.redacted_text,
                       details |-> details]]

(***************************************************************************)
(* The calls.  One call is in progress at a time; it stops at the two      *)
(* external calls (the classifier and the selected recognizer).            *)
(***************************************************************************)
VARIABLES
  pc,        \* "idle", "classify", "recognize", "done"
  op,        \* "detect_pii", "redact_pii", "contains_pii", "get_pii_report"
  text,      \* the argument text
  strategy,  \* the argument strategy of redact_pii
  phase,     \* which detect_pii_entities call of the operation is running
  language,  \* the classifier's answer in the running detection
  doc,       \* history: the doc.ents behind the entities of a one-detection call
  details,   \* get_pii_summary: the entities of its first detection
  result,    \* the outcome of the call: a returned value or a raised exception
  calls,     \* the external calls made during the call, in order
  failed,    \* an external call of this call raised
  accepted,  \* the entity list at line 124, when lines 124-133 are run on their own
  frames,    \* the locals of each of the calls that run concurrently
  detector   \* the fields of the global pii_detector

vars == <<pc, op, text, strategy, phase, language, doc, details, result, calls, failed,
          accepted, frames, detector>>

\* the variables that the calls made one at a time leave alone
aside == <<accepted, frames, detector>>

Ops == {"detect_pii", "redact_pii", "contains_pii", "get_pii_report"}

NoResult == [kind |-> "none"]

\* lines 15-46 and 188: the fields of the detector as __init__ leaves them;
\* the handles by the names of what they load, the pattern table by its keys
pii_detector ==
  [nlp_en |-> "en_core_web_sm",
   nlp_fr |-> "fr_core_news_sm",
   llm |-> "ollama_llm",
   sensitive_labels_en |-> sensitive_labels_en,
   sensitive_labels_fr |-> sensitive_labels_fr,
   regex_patterns |-> [k \in 1..Len(regex_patterns) |-> regex_patterns[k].name]]

\* the callers that may be inside the engine at the same time
Threads == {"t1", "t2"}

\* the locals of a call that has not started
IdleFrame ==
  [pc |-> "idle", op |-> "none", text |-> << >>, strategy |-> "none", phase |-> 0,
   language |-> "none", details |-> << >>, result |-> NoResult,
   languages |-> << >>, docs |-> << >>]

Init ==
  /\ pc = "idle"
  /\ op = "none"
  /\ text = << >>
  /\ strategy = "none"
  /\ phase = 0
  /\ language = "none"
  /\ doc = << >>
  /\ details = << >>
  /\ result = NoResult
  /\ calls = << >>
  /\ failed = FALSE
  /\ accepted = << >>
  /\ frames = [t \in Threads |-> IdleFrame]
  /\ detector = pii_detector

\* what the operation returns once its last detection produced entities
Finish(o, txt, strat, first, entities) ==
  CASE o = "detect_pii" -> [kind |-> "return", value |-> entities]
    [] o = "contains_pii" -> [kind |-> "return", value |-> Len(entities) > 0]
    [] o = "redact_pii" -> Redact(txt, entities, strat)
    [] o = "get_pii_report" -> Summary(txt, first, entities)

\* the strategy redact_pii is called with; the other operations take none
StrategiesOf(o) == IF o = "redact_pii" THEN Strategies ELSE {"none"}

\* the texts an operation is called with; get_pii_report runs two detections
\* with independent answers and is called with the texts of at most one word
TextsOf(o) ==
  IF o = "get_pii_report" THEN Vocabulary \cup { << >> } ELSE Texts

\* a caller invokes one of the four operations.  A blank text makes every
\* detect_pii_entities of the operation return [] at line 77.
Call(o, txt, strat) ==
  /\ pc = "idle"
  /\ op' = o
  /\ text' = txt
  /\ strategy' = strat
  /\ IF IsBlank(txt)
     THEN /\ pc' = "done"
          /\ phase' = 0
          /\ result' = Finish(o, txt, strat, << >>, << >>)
     ELSE /\ pc' = "classify"
          /\ phase' = 1
          /\ result' = NoResult
  /\ UNCHANGED <<language, doc, details, calls, failed>>
  /\ UNCHANGED aside

\* variant: the classifier is asked a second time before its answer is used
Classify_askedTwice(lang) ==
  /\ pc = "classify"
  /\ language' = lang
  /\ calls' = calls \o <<"llm", "llm">>
  /\ pc' = "recognize"
  /\ UNCHANGED <<op, text, strategy, phase, doc, details, result, failed>>
  /\ UNCHANGED aside

\* line 79, detect_language: the classifier answers
Classify(lang) ==
  /\ pc = "classify"
  /\ language' = lang
  /\ calls' = Append(calls, "llm")
  /\ pc' = "recognize"
  /\ UNCHANGED <<op, text, strategy, phase, doc, details, result, failed>>
  /\ UNCHANGED aside

\* the exception of a failed external call propagates out of the operation
AdapterError == [kind |-> "raise", exc |-> "AdapterError"]

\* variant: the failure is swallowed and "no entities" is reported
OnFailure_swallowed == [kind |-> "return", value |-> << >>]

\* no try/except in lines 48-86: the operation ends with the adapter's exception
OnFailure == AdapterError

\* line 68: the classifier call raises
ClassifyFails ==
  /\ pc = "classify"
  /\ calls' = Append(calls, "llm")
  /\ failed' = TRUE
  /\ result' = OnFailure
  /\ pc' = "done"
  /\ UNCHANGED <<op, text, strategy, phase, language, doc, details>>
  /\ UNCHANGED aside

\* variant: the English pipeline is also selected for the answer "english"
Pipeline_englishName(lang) == IF lang \in {"en", "english"} THEN "nlp_en" ELSE "nlp_fr"

\* lines 81-86: the pipeline selected for the classified language
Pipeline(lang) == IF lang = "en" THEN "nlp_en" ELSE "nlp_fr"

PipelineLabels(pipeline) == IF pipeline = "nlp_en" THEN LabelsEn ELSE LabelsFr

\* lines 82/85 and the rest of the operation: the recognizer answers with
\* some doc.ents, the entities are aggregated, and the operation either
\* starts its second detection (get_pii_summary, line 177) or finishes
Recognize ==
  /\ pc = "recognize"
  /\ calls' = Append(calls, Pipeline(language))
  /\ LET found == PatternMatches(text)
     IN  \E ents \in DocEnts(text, PipelineLabels(Pipeline(language))) :
           LET entities == Aggregate(found, language, ents)
           IN  IF op = "get_pii_report" /\ phase = 1
               THEN \* the first detect_pii_entities returned: its locals are gone
                    /\ details' = entities
                    /\ phase' = 2
                    /\ pc' = "classify"
                    /\ language' = "none"
                    /\ doc' = << >>
                    /\ result' = NoResult
               ELSE /\ result' = Finish(op, text, strategy, details, entities)
                    /\ pc' = "done"
                    /\ doc' = IF op = "get_pii_report" THEN << >> ELSE ents
                    /\ UNCHANGED <<details, phase, language>>
  /\ UNCHANGED <<op, text, strategy, failed>>
  /\ UNCHANGED aside

\* lines 82/85: the recognizer call raises
RecognizeFails ==
  /\ pc = "recognize"
  /\ calls' = Append(calls, Pipeline(language))
  /\ failed' = TRUE
  /\ result' = OnFailure
  /\ pc' = "done"
  /\ UNCHANGED <<op, text, strategy, phase, language, doc, details>>
  /\ UNCHANGED aside

\* the caller takes the outcome; nothing of the call is kept
Return ==
  /\ pc = "done"
  /\ pc' = "idle"
  /\ op' = "none"
  /\ text' = << >>
  /\ strategy' = "none"
  /\ phase' = 0
  /\ language' = "none"
  /\ doc' = << >>
  /\ details' = << >>
  /\ result' = NoResult
  /\ calls' = << >>
  /\ failed' = FALSE
  /\ UNCHANGED aside

Next ==
  \/ \E o \in Ops : \E txt \in TextsOf(o), strat \in StrategiesOf(o) : Call(o, txt, strat)
  \/ \E lang \in Languages : Classify(lang)
  \/ ClassifyFails
  \/ Recognize
  \/ RecognizeFails
  \/ Return

Spec == Init /\ [][Next]_vars

(***************************************************************************)
(* The calls on texts with a payment-card number, a social-security number  *)
(* and an e-mail address that begins with digits: texts in which matches of *)
(* different patterns intersect.                                            *)
(***************************************************************************)
CardText ==
  <<"C", "a", "r", "d", " ", "4", "1", "1", "1", " ", "1", "1", "1", "1", " ",
    "1", "1", "1", "1", " ", "1", "1", "1", "1">>

ScenarioTexts ==
  { CardText,
    <<"1", "2", "3", "-", "4", "5", "-", "6", "7", "8", "9">>,
    <<"1", "2", "-", "3", "4", "5", "a", "b", "c", "@", "d", ".", "e", "f">> }

ScenarioOps == {"detect_pii", "redact_pii"}

NextScenario ==
  \/ \E o \in ScenarioOps :
       \E txt \in ScenarioTexts, strat \in StrategiesOf(o) : Call(o, txt, strat)
  \/ \E lang \in Languages : Classify(lang)
  \/ ClassifyFails
  \/ Recognize
  \/ RecognizeFails
  \/ Return

SpecScenario == Init /\ [][NextScenario]_vars

(***************************************************************************)
(* Lines 124-133 on their own: the step that removes duplicates and sorts, *)
(* applied to an accepted list that may hold an entry more than once.      *)
(***************************************************************************)
MaxAccepted == 3

\* entities of the text "123 123" as lines 94-101 and 112-119 build them
SampleEntities ==
  { [text |-> <<"1", "2", "3">>, label |-> "PERSON", start |-> 0, end |-> 3,
     source |-> "spacy", language |-> "en"],
    [text |-> <<"1", "2", "3">>, label |-> "PHONE", start |-> 0, end |-> 3,
     source |-> "regex", language |-> "en"],
    [text |-> <<"1", "2", "3">>, label |-> "PHONE", start |-> 4, end |-> 7,
     source |-> "regex", language |-> "en"],
    [text |-> <<"1", "2", "3", " ", "1", "2", "3">>, label |-> "PHONE", start |-> 0,
     end |-> 7, source |-> "regex", language |-> "en"] }

\* the accepted lists the step is applied to
AcceptedLists == UNION { [1..n -> SampleEntities] : n \in 0..MaxAccepted }

InitUnique ==
  /\ pc = "unique"
  /\ op = "none"
  /\ text = <<"1", "2", "3", " ", "1", "2", "3">>
  /\ strategy = "none"
  /\ phase = 0
  /\ language = "en"
  /\ doc = << >>
  /\ details = << >>
  /\ result = NoResult
  /\ calls = << >>
  /\ failed = FALSE
  /\ accepted \in AcceptedLists
  /\ frames = [t \in Threads |-> IdleFrame]
  /\ detector = pii_detector

\* lines 125-133: the duplicates are removed and the rest is sorted by start
Deduplicate ==
  /\ pc = "unique"
  /\ result' = [kind |-> "return", value |-> SortedByStart(Unique(accepted, {}))]
  /\ pc' = "done"
  /\ UNCHANGED <<op, text, strategy, phase, language, doc, details, calls, failed>>
  /\ UNCHANGED aside

NextUnique == Deduplicate

SpecUnique == InitUnique /\ [][NextUnique]_vars

(***************************************************************************)
(* Concurrent calls.  Every caller in Threads runs the operations on the   *)
(* one global pii_detector; the locals of its call are its frame, and the  *)
(* steps of the callers interleave at the external calls.                  *)
(***************************************************************************)
\* the texts the concurrent callers pass
ConcTexts == { <<" ">>, <<"1", "2", "3">> }

\* the variables of the calls made one at a time
single == <<pc, op, text, strategy, phase, language, doc, details, result, calls, failed>>

\* a caller enters one of the four convenience functions (lines 191-205)
CallT(t, o, txt, strat) ==
  /\ frames[t].pc = "idle"
  /\ frames' = [frames EXCEPT ![t] =
                  [IdleFrame EXCEPT
                     !.op = o, !.text = txt, !.strategy = strat,
                     !.pc = IF IsBlank(txt) THEN "done" ELSE "classify",
                     !.phase = IF IsBlank(txt) THEN 0 ELSE 1,
                     !.result = IF IsBlank(txt)
                                THEN Finish(o, txt, strat, << >>, << >>)
                                ELSE NoResult]]
  /\ UNCHANGED <<single, accepted, detector>>

\* variant: detect_language keeps its answer in a field of the detector and
\* line 81 reads that field
ClassifyT_onSelf(t, lang) ==
  /\ frames[t].pc = "classify"
  /\ frames' = [u \in Threads |->
                  IF u = t
                  THEN [frames[u] EXCEPT !.language = lang,
                                         !.languages = Append(@, lang),
                                         !.pc = "recognize"]
                  ELSE [frames[u] EXCEPT !.language = lang]]
  /\ detector' = [field \in DOMAIN detector \cup {"language"} |->
                    IF field = "language" THEN lang ELSE detector[field]]
  /\ UNCHANGED <<single, accepted>>

\* lines 79 and 48-71: the classifier answers; the answer is the local
\* `language` of the call and nothing of self is written
ClassifyT(t, lang) ==
  /\ frames[t].pc = "classify"
  /\ frames' = [frames EXCEPT ![t].language = lang,
                              ![t].languages = Append(@, lang),
                              ![t].pc = "recognize"]
  /\ UNCHANGED <<single, accepted, detector>>

\* lines 81-133 and the rest of the operation, on the locals of the caller
RecognizeT(t) ==
  /\ frames[t].pc = "recognize"
  /\ LET f == frames[t]
         found == PatternMatches(f.text)
     IN  \E ents \in DocEnts(f.text, PipelineLabels(Pipeline(f.language))) :
           LET entities == Aggregate(found, f.language, ents)
           IN  frames' = [frames EXCEPT ![t] =
                 IF f.op = "get_pii_report" /\ f.phase = 1
                 THEN [f EXCEPT !.details = entities, !.phase = 2, !.pc = "classify",
                                !.language = "none", !.docs = Append(@, ents)]
                 ELSE [f EXCEPT !.result = Finish(f.op, f.text, f.strategy, f.details, entities),
                                !.pc = "done", !.docs = Append(@, ents)]]
  /\ UNCHANGED <<single, accepted, detector>>

\* the caller takes the outcome and its frame is gone
ReturnT(t) ==
  /\ frames[t].pc = "done"
  /\ frames' = [frames EXCEPT ![t] = IdleFrame]
  /\ UNCHANGED <<single, accepted, detector>>

NextConc ==
  \E t \in Threads :
    \/ \E o \in Ops : \E txt \in ConcTexts, strat \in StrategiesOf(o) : CallT(t, o, txt, strat)
    \/ \E lang \in Languages : ClassifyT(t, lang)
    \/ RecognizeT(t)
    \/ ReturnT(t)

SpecConc == Init /\ [][NextConc]_vars

(***************************************************************************)
(* Properties.                                                             *)
(***************************************************************************)
\* a detect_pii call has returned its list
DetectReturned == pc = "done" /\ op = "detect_pii" /\ result.kind = "return"

\* two half-open intervals share a position
Intersect(a_start, a_end, b_start, b_end) == a_start < b_end /\ b_start < a_end

\* a span of doc.ents is a person name of the classified language
PassedFilter(ent, lang) ==
  /\ ent.label_ = (IF lang = "en" THEN "PERSON" ELSE "PER")
  /\ Len(strip(ent.text)) > 2

\* C1: no two entities of the list returned by detect_pii have intersecting
\* [start,end) intervals
C1_Disjoint ==
  DetectReturned =>
    \A i, j \in 1..Len(result.value) :
      i < j => ~ Intersect(result.value[i].start, result.value[i].end,
                           result.value[j].start, result.value[j].end)

\* C1 witness: a returned list with a recognizer span and a pattern match,
\* for a text in which a further pattern match ran into the recognizer span
C1_Witness ==
  /\ DetectReturned
  /\ \E i, j \in 1..Len(result.value) :
       result.value[i].source = "spacy" /\ result.value[j].source = "regex"
  /\ \E k \in 1..Len(regex_patterns) :
       LET ms == finditer(regex_patterns[k].pattern, text, 0)
       IN  \E n \in 1..Len(ms), d \in 1..Len(doc) :
             /\ PassedFilter(doc[d], language)
             /\ Intersect(ms[n].start, ms[n].end, doc[d].start_char, doc[d].end_char)

\* C2: the start offsets of consecutive entities of the list returned by
\* detect_pii are non-decreasing
C2_Sorted ==
  DetectReturned =>
    \A i \in 1..(Len(result.value) - 1) :
      result.value[i].start <= result.value[i + 1].start

\* C2 witness: a pattern match, accepted after the recognizer spans, is
\* returned before a recognizer span
C2_Witness ==
  /\ DetectReturned
  /\ \E i \in 1..(Len(result.value) - 1) :
       result.value[i].source = "regex" /\ result.value[i + 1].source = "spacy"

\* C3: when a recognizer span that passed the filter and a pattern match
\* intersect, the returned list has the recognizer span and not the match;
\* a pattern match in the list intersects nothing that was accepted before it
C3_OverlapPrecedence ==
  DetectReturned =>
    /\ \A d \in 1..Len(doc), k \in 1..Len(regex_patterns) :
         LET ms == finditer(regex_patterns[k].pattern, text, 0)
         IN  \A n \in 1..Len(ms) :
               ( /\ PassedFilter(doc[d], language)
                 /\ Intersect(ms[n].start, ms[n].end, doc[d].start_char, doc[d].end_char) )
               => /\ \E i \in 1..Len(result.value) :
                       /\ result.value[i].source = "spacy"
                       /\ result.value[i].start = doc[d].start_char
                       /\ result.value[i].end = doc[d].end_char
                       /\ result.value[i].text = doc[d].text
                  /\ ~ \E i \in 1..Len(result.value) :
                         /\ result.value[i].source = "regex"
                         /\ result.value[i].label = regex_patterns[k].name
                         /\ result.value[i].start = ms[n].start
                         /\ result.value[i].end = ms[n].end
    /\ \A i, j \in 1..Len(result.value) :
         ( /\ i # j
           /\ result.value[i].source = "regex"
           /\ \/ result.value[j].source = "spacy"
              \/ \E k1, k2 \in 1..Len(regex_patterns) :
                   /\ regex_patterns[k1].name = result.value[j].label
                   /\ regex_patterns[k2].name = result.value[i].label
                   /\ \/ k1 < k2
                      \/ k1 = k2 /\ result.value[j].start < result.value[i].start )
         => ~ Intersect(result.value[i].start, result.value[i].end,
                        result.value[j].start, result.value[j].end)

\* C3 witness: a pattern match begins before a kept recognizer span and runs
\* into it, and the list was returned
C3_Witness ==
  /\ DetectReturned
  /\ \E d \in 1..Len(doc), k \in 1..Len(regex_patterns) :
       LET ms == finditer(regex_patterns[k].pattern, text, 0)
       IN  \E n \in 1..Len(ms) :
             /\ PassedFilter(doc[d], language)
             /\ ms[n].start < doc[d].start_char
             /\ ms[n].end > doc[d].start_char

\* C4: every entity returned by detect_pii has 0 <= start < end <= len(text)
\* and its text field is text[start:end] of the input
C4_OffsetsValid ==
  DetectReturned =>
    \A i \in 1..Len(result.value) :
      /\ 0 <= result.value[i].start
      /\ result.value[i].start < result.value[i].end
      /\ result.value[i].end <= Len(text)
      /\ result.value[i].text =
           [n \in 1..(result.value[i].end - result.value[i].start) |->
              text[result.value[i].start + n]]

\* C4 witness: a returned list with an entity of each source, one of them
\* not at the beginning of the text
C4_Witness ==
  /\ DetectReturned
  /\ \E i, j \in 1..Len(result.value) :
       /\ result.value[i].source = "spacy"
       /\ result.value[j].source = "regex"
       /\ result.value[i].start > 0

\* a redact_pii call has returned its pair
RedactReturned == pc = "done" /\ op = "redact_pii" /\ result.kind = "return"

\* the text with the span of ents[i] replaced by repls[i], written front to
\* back from offset pos; ents is ascending and disjoint
RECURSIVE Substituted(_, _, _, _)
Substituted(txt, ents, repls, pos) ==
  IF ents = << >> THEN SubSeq(txt, pos + 1, Len(txt))
  ELSE SubSeq(txt, pos + 1, Head(ents).start) \o Head(repls)
         \o Substituted(txt, Tail(ents), Tail(repls), Head(ents).end)

\* C5: the text returned by redact_pii is the input text with the span of
\* every returned entity replaced by its replacement string and every other
\* character kept, in order
C5_RedactSubstitutes ==
  RedactReturned =>
    result.value.redacted_text =
      Substituted(text, result.value.entities,
                  [i \in 1..Len(result.value.entities) |->
                     _get_replacement(result.value.entities[i], strategy)],
                  0)

\* C5 witness: a rewriting of two or more entities in which the replacement
\* of the first entity has another length than its span
C5_Witness ==
  /\ RedactReturned
  /\ Len(result.value.entities) >= 2
  /\ Len(_get_replacement(result.value.entities[1], strategy))
       # result.value.entities[1].end - result.value.entities[1].start

\* the text is empty or consists of whitespace only
AllWhitespace(txt) == \A i \in 1..Len(txt) : txt[i] = " "

\* C6: for an empty or whitespace-only text detect_pii returns the empty
\* list, contains_pii returns false, and no external call is made
C6_BlankShortCircuit ==
  (pc # "idle" /\ AllWhitespace(text)) =>
    /\ pc = "done"
    /\ calls = << >>
    /\ op = "detect_pii" => result = [kind |-> "return", value |-> << >>]
    /\ op = "contains_pii" => result = [kind |-> "return", value |-> FALSE]

\* C6 witness: contains_pii has answered for a text of two spaces
C6_Witness ==
  /\ pc = "done"
  /\ op = "contains_pii"
  /\ Len(text) = 2
  /\ AllWhitespace(text)
  /\ result.kind = "return"

\* C7: when the classifier or the recognizer fails, the operation ends with
\* that failure raised to the caller, never with a returned value, and no
\* external call is repeated
C7_FailureSurfaces ==
  failed =>
    /\ pc = "done"
    /\ result.kind = "raise"
    /\ result.exc = "AdapterError"
    /\ Len(calls) \in {2 * phase - 1, 2 * phase}
    /\ \A i \in 1..Len(calls) : (i % 2 = 1) <=> (calls[i] = "llm")

\* C7 witness: get_pii_report whose first detection found entities and whose
\* second detection failed at the recognizer
C7_Witness ==
  /\ failed
  /\ op = "get_pii_report"
  /\ phase = 2
  /\ Len(details) > 0
  /\ Len(calls) = 4

\* the entities the detection of a finished one-detection call produced
Detected == Aggregate(PatternMatches(text), language, doc)

\* C8: redact_pii with "block" on a text with at least one detected entity
\* raises the error naming the label and text of the entity with the greatest
\* start, and returns no text
C8_BlockNamesLast ==
  (pc = "done" /\ op = "redact_pii" /\ strategy = "block" /\ ~ failed) =>
    LET found == Detected
    IN  Len(found) >= 1 =>
          /\ result.kind = "raise"
          /\ result.exc = "ValueError"
          /\ \E i \in 1..Len(found) :
               /\ \A j \in 1..Len(found) : found[j].start <= found[i].start
               /\ result.label = found[i].label
               /\ result.text = found[i].text

\* C8 witness: a blocked call whose detection found entities of two labels
C8_Witness ==
  /\ pc = "done" /\ op = "redact_pii" /\ strategy = "block" /\ ~ failed
  /\ result.kind = "raise"
  /\ LET found == Detected
     IN  \E i, j \in 1..Len(found) : found[i].label # found[j].label

\* C9: the blocking error is raised only by redact_pii with "block" on a text
\* with a detected entity; with "block" and no entity the text is returned
\* unchanged with an empty list
C9_BlockedOnlyUnderBlock ==
  pc = "done" =>
    /\ (result.kind = "raise" /\ result.exc = "ValueError")
         => (op = "redact_pii" /\ strategy = "block" /\ Len(Detected) >= 1)
    /\ (op = "redact_pii" /\ strategy = "block" /\ ~ failed /\ Len(Detected) = 0)
         => result = [kind |-> "return",
                      value |-> [redacted_text |-> text, entities |-> << >>]]

\* C9 witness: "block" on a text that went through detection and has no entity
C9_Witness ==
  /\ RedactReturned
  /\ strategy = "block"
  /\ Len(calls) = 2
  /\ result.value.redacted_text = text

\* the digits of a text, in order
RECURSIVE DigitsOf(_)
DigitsOf(txt) ==
  IF txt = << >> THEN << >>
  ELSE (IF Head(txt) \in Digits THEN << Head(txt) >> ELSE << >>) \o DigitsOf(Tail(txt))

\* the last n elements of a sequence
LastN(seq, n) == SubSeq(seq, IF Len(seq) > n THEN Len(seq) - n + 1 ELSE 1, Len(seq))

\* the "mask" replacement as the claim words it
MaskAsClaimed(entity) ==
  IF entity.label = "EMAIL"
  THEN SubSeq(SplitHead(entity.text, "@"), 1, Min(2, Len(SplitHead(entity.text, "@"))))
         \o <<"*", "*", "*", "@">> \o SplitRest(entity.text, "@")
  ELSE IF entity.label = "PHONE"
       THEN IF Len(entity.text) <= 4 THEN <<"*", "*", "*">>
            ELSE <<"*", "*", "*", "-", "*", "*", "*", "-">> \o LastN(DigitsOf(entity.text), 4)
       ELSE <<"*", "*", "*">> \o LabelText(entity.label) \o <<"*", "*", "*">>

\* C10: under "mask" an EMAIL becomes the first two characters of its local
\* part, "***@" and its domain; a PHONE becomes "***-***-" and the last four
\* digits of the match, or "***" when the match has 4 characters or fewer;
\* any other entity becomes "***<label>***"
C10_MaskAsClaimed ==
  (RedactReturned /\ strategy = "mask") =>
    result.value.redacted_text =
      Substituted(text, result.value.entities,
                  [i \in 1..Len(result.value.entities) |->
                     MaskAsClaimed(result.value.entities[i])],
                  0)

\* the marker "[REDACTED_<label>]" written out
Marker(label) ==
  <<"[", "R", "E", "D", "A", "C", "T", "E", "D", "_">> \o LabelText(label) \o <<"]">>

\* C11: a redact_pii call with a strategy other than "redact", "mask" and
\* "block" whose external calls succeed raises nothing; it returns the
\* detected entities and the text in which each of them is replaced by
\* "[REDACTED_<label>]", which is what "redact" returns
C11_UnknownAsRedact ==
  ( /\ pc = "done"
    /\ op = "redact_pii"
    /\ strategy \notin {"redact", "mask", "block"}
    /\ ~ failed )
  => LET found == Detected
     IN  /\ result.kind = "return"
         /\ result.value.entities = found
         /\ result.value.redacted_text =
              Substituted(text, found,
                          [i \in 1..Len(found) |-> Marker(found[i].label)], 0)
         /\ result = Redact(text, found, "redact")

\* C11 witness: a call with the strategy "hash" returned a rewriting of one
\* or more entities
C11_Witness ==
  /\ RedactReturned
  /\ strategy = "hash"
  /\ Len(result.value.entities) >= 1

\* the person label of the label set the claim puts in force for a language
PersonLabel(lang) == IF lang = "en" THEN "PERSON" ELSE "PER"

\* C12: when the classifier answered "en" the recognizer called is the
\* English one and the spans kept are those labelled PERSON; for every other
\* answer the recognizer called is the French one and the spans kept are
\* those labelled PER, and the answer itself raises nothing
C12_LanguageDispatch ==
  /\ (pc = "done" /\ Len(calls) \in {2, 4}) =>
       calls[Len(calls)] = (IF language = "en" THEN "nlp_en" ELSE "nlp_fr")
  /\ (pc = "done" /\ op = "detect_pii" /\ Len(calls) = 2 /\ ~ failed) =>
       /\ result.kind = "return"
       /\ \A i \in 1..Len(result.value) :
            result.value[i].source = "spacy" =>
              result.value[i].label = PersonLabel(language)
       /\ \A d \in 1..Len(doc) :
            Len(strip(doc[d].text)) > 2 =>
              ( doc[d].label_ = PersonLabel(language)
                <=> \E i \in 1..Len(result.value) :
                      /\ result.value[i].source = "spacy"
                      /\ result.value[i].start = doc[d].start_char
                      /\ result.value[i].end = doc[d].end_char )

\* C12 witness: the classifier answered "english", a value other than "en";
\* the French recognizer was called and a span labelled PER was kept
C12_Witness ==
  /\ DetectReturned
  /\ language = "english"
  /\ calls = <<"llm", "nlp_fr">>
  /\ \E i \in 1..Len(result.value) :
       result.value[i].source = "spacy" /\ result.value[i].label = "PER"

\* a get_pii_report call has returned its report
ReportReturned == pc = "done" /\ op = "get_pii_report" /\ result.kind = "return"

\* C13: the report is composed from one detection result: the flag says the
\* listed entities are not none, the count is their number, the types are
\* their distinct labels, and safe_text is the input text in which exactly
\* the spans of the listed entities are replaced by "[REDACTED_<label>]"
C13_ReportOfOneDetection ==
  ReportReturned =>
    LET listed == result.value.details
    IN  /\ result.value.has_confidential_info = (Len(listed) > 0)
        /\ result.value.entities_found = Len(listed)
        /\ result.value.entity_types = { listed[i].label : i \in 1..Len(listed) }
        /\ result.value.safe_text =
             Substituted(text, listed,
                         [i \in 1..Len(listed) |-> Marker(listed[i].label)], 0)

\* the triple that identifies an entity in lines 125-131
Triple(entity) == <<entity.text, entity.start, entity.end>>

\* C14: no two entities of the list that lines 124-133 return share their
\* (text, start, end); every triple of the accepted list is the triple of
\* exactly one returned entity, and every returned entity was accepted
C14_OnePerTriple ==
  (pc = "done" /\ result.kind = "return" /\ op = "none") =>
    LET kept == result.value
    IN  /\ \A i, j \in 1..Len(kept) : i < j => Triple(kept[i]) # Triple(kept[j])
        /\ \A n \in 1..Len(accepted) :
             Cardinality({ i \in 1..Len(kept) : Triple(kept[i]) = Triple(accepted[n]) }) = 1
        /\ \A i \in 1..Len(kept) : \E n \in 1..Len(accepted) : kept[i] = accepted[n]

\* C14 witness: the accepted list held two entries of one triple and an
\* entry of another triple, and the step returned
C14_Witness ==
  /\ pc = "done"
  /\ op = "none"
  /\ \E m, n \in 1..Len(accepted) : m < n /\ Triple(accepted[m]) = Triple(accepted[n])
  /\ Len(result.value) >= 2

\* the outcome of the call of frame f when it runs with no other call in
\* progress and receives the classifier and recognizer answers f received
RunAlone(f) ==
  IF IsBlank(f.text) THEN Finish(f.op, f.text, f.strategy, << >>, << >>)
  ELSE LET found == PatternMatches(f.text)
           first == Aggregate(found, f.languages[1], f.docs[1])
       IN  IF f.op = "get_pii_report"
           THEN Finish(f.op, f.text, f.strategy, first,
                       Aggregate(found, f.languages[2], f.docs[2]))
           ELSE Finish(f.op, f.text, f.strategy, << >>, first)

\* C15: the fields of the detector stay as __init__ left them whatever the
\* calls do, and the outcome of every finished call, however its steps
\* interleaved with those of the other caller, is the outcome of the same
\* call run alone with the same answers
C15_NoCrossCallState ==
  /\ detector = pii_detector
  /\ \A t \in Threads :
       frames[t].pc = "done" => frames[t].result = RunAlone(frames[t])

\* C15 witness: a call finished with entities of its own language while the
\* other caller, who passed the same text, is between its classifier and its
\* recognizer call with another language
C15_Witness ==
  /\ frames["t1"].pc = "done"
  /\ frames["t1"].op = "detect_pii"
  /\ frames["t1"].result.kind = "return"
  /\ Len(frames["t1"].result.value) > 0
  /\ frames["t2"].pc = "recognize"
  /\ frames["t2"].text = frames["t1"].text
  /\ frames["t2"].language # frames["t1"].language

\* "Card ***CREDIT_CARD***"
CardMasked ==
  <<"C", "a", "r", "d", " ", "*", "*", "*">> \o LabelText("CREDIT_CARD") \o <<"*", "*", "*">>

\* the recognizer found no person name in the text
NoPersonFound == \A d \in 1..Len(doc) : ~ PassedFilter(doc[d], language)

\* C16: for "Card 4111 1111 1111 1111" with no person name found,
\* detect_pii returns exactly one entity, labelled CREDIT_CARD and spanning
\* the digit group [5,24), and redact_pii with "mask" returns
\* "Card ***CREDIT_CARD***"
C16_CardExample ==
  (pc = "done" /\ text = CardText /\ ~ failed /\ NoPersonFound) =>
    /\ op = "detect_pii" =>
         /\ Len(result.value) = 1
         /\ result.value[1].label = "CREDIT_CARD"
         /\ result.value[1].start = 5
         /\ result.value[1].end = 24
    /\ (op = "redact_pii" /\ strategy = "mask") =>
         /\ result.kind = "return"
         /\ result.value.redacted_text = CardMasked

\* the three conditions the claim puts on a span of the recognizer
KeptAsClaimed(ent, lang) ==
  /\ ent.label_ = PersonLabel(lang)
  /\ Len(strip(ent.text)) > 2
  /\ ~ (Len(ent.text) > 0 /\ AllWhitespace(ent.text))

\* C17: a span of the recognizer's answer is in the list detect_pii
\* returns, with source "spacy" and its own label, offsets and text, if and
\* only if its label is the person label of the classified language, its
\* trimmed text is longer than 2 characters and it is not all whitespace;
\* no other entity of the list has the source "spacy"
C17_RecognizerFilter ==
  (DetectReturned /\ Len(calls) = 2) =>
    /\ \A d \in 1..Len(doc) :
         KeptAsClaimed(doc[d], language)
         <=> \E i \in 1..Len(result.value) :
               /\ result.value[i].source = "spacy"
               /\ result.value[i].label = doc[d].label_
               /\ result.value[i].start = doc[d].start_char
               /\ result.value[i].end = doc[d].end_char
               /\ result.value[i].text = doc[d].text
    /\ \A i \in 1..Len(result.value) :
         result.value[i].source = "spacy" =>
           \E d \in 1..Len(doc) :
             /\ result.value[i].start = doc[d].start_char
             /\ result.value[i].end = doc[d].end_char

\* C17 witness: the recognizer returned a span with the person label whose
\* trimmed text has exactly 2 characters; it was dropped and the list that
\* was returned holds pattern matches only
C17_Witness ==
  /\ DetectReturned
  /\ \E d \in 1..Len(doc) :
       doc[d].label_ = PersonLabel(language) /\ Len(strip(doc[d].text)) = 2
  /\ Len(result.value) >= 1
  /\ \A i \in 1..Len(result.value) : result.value[i].source = "regex"

\* the fixed order in which the claim lists the patterns
DeclaredOrder == <<"EMAIL", "PHONE", "SSN", "CREDIT_CARD", "FRENCH_SSN", "PASSPORT">>

\* the pattern of a name
PatternNamed(name) ==
  CASE name = "EMAIL" -> EMAIL
    [] name = "PHONE" -> PHONE
    [] name = "SSN" -> SSN
    [] name = "CREDIT_CARD" -> CREDIT_CARD
    [] name = "FRENCH_SSN" -> FRENCH_SSN
    [] name = "PASSPORT" -> PASSPORT

\* the place of a name in the fixed order
PlaceOf(name) == CHOOSE a \in 1..Len(DeclaredOrder) : DeclaredOrder[a] = name

\* the match is an entity of the list under the name of its pattern
Listed(list, name, match) ==
  \E i \in 1..Len(list) :
    /\ list[i].source = "regex"
    /\ list[i].label = name
    /\ list[i].start = match.start
    /\ list[i].end = match.end

\* the match intersects no recognizer span of the list and no pattern match
\* of the list whose pattern comes before place a
FreeBefore(list, a, match) ==
  \A i \in 1..Len(list) :
    (list[i].source = "spacy" \/ PlaceOf(list[i].label) < a)
    => ~ Intersect(list[i].start, list[i].end, match.start, match.end)

\* C18: when a match of an earlier pattern and a match of a later pattern
\* intersect, and neither intersects a recognizer span or an entity accepted
\* before the earlier pattern was tried, the returned list has the earlier
\* pattern's match and not the later one's, whatever their lengths
C18_DeclarationOrder ==
  (DetectReturned /\ Len(calls) = 2) =>
    LET list == result.value
        ms == [a \in 1..Len(DeclaredOrder) |-> finditer(PatternNamed(DeclaredOrder[a]), text, 0)]
    IN  \A a, b \in 1..Len(DeclaredOrder) :
          a < b =>
            \A m \in 1..Len(ms[a]), n \in 1..Len(ms[b]) :
              ( /\ Intersect(ms[a][m].start, ms[a][m].end, ms[b][n].start, ms[b][n].end)
                /\ FreeBefore(list, a, ms[a][m])
                /\ FreeBefore(list, a, ms[b][n]) )
              => /\ Listed(list, DeclaredOrder[a], ms[a][m])
                 /\ ~ Listed(list, DeclaredOrder[b], ms[b][n])

\* C18 witness: in "Card 4111 1111 1111 1111" the PHONE match [5,19) is in
\* the returned list and the longer CREDIT_CARD match [5,24), which
\* contains it, is not; the list has no recognizer span
C18_Witness ==
  /\ DetectReturned
  /\ text = CardText
  /\ \A i \in 1..Len(result.value) : result.value[i].source = "regex"
  /\ Listed(result.value, "PHONE", [start |-> 5, end |-> 19])
  /\ \E n \in 1..Len(finditer(CREDIT_CARD, text, 0)) :
       /\ finditer(CREDIT_CARD, text, 0)[n].start = 5
       /\ finditer(CREDIT_CARD, text, 0)[n].end = 24
  /\ ~ Listed(result.value, "CREDIT_CARD", [start |-> 5, end |-> 24])

\* the external calls of one detection whose classifier answered lang
CallsAsClaimed(lang) == <<"llm", IF lang = "en" THEN "nlp_en" ELSE "nlp_fr">>

====
